---------------------------- MODULE Spec2Model ----------------------------
(***************************************************************************)
(* SiddonJacobsRayCastInterpolateImageFunction: the projection geometry    *)
(* cache (ComputeInverseTransform / Initialize / the setters) and the      *)
(* Siddon-Jacobs ray traversal of Evaluate.                                *)
(*                                                                         *)
(* Arithmetic.  The code computes in float/double.  The model computes in  *)
(* exact rationals: every parametric value alpha of one ray is stored      *)
(* multiplied by Den(rayVector), the product of the absolute values of the *)
(* non-zero ray components, which makes every plane-crossing alpha of that *)
(* ray an integer.  d12 is stored with the same factor.  World points,     *)
(* spacings, intensities and the threshold are integers; rotations are     *)
(* whole quarter turns, so every transform matrix is an integer matrix.    *)
(* The locals of Evaluate are of type float: a stored value keeps 24       *)
(* significant bits (ToFloat).  That is exact for an integer below 2^24,   *)
(* and for a ray whose Den is a power of two it is the rounding the float  *)
(* store makes; rounding finer than one unit of the scale is not modelled. *)
(***************************************************************************)
EXTENDS Integers, Sequences, FiniteSets, TLC

VARIABLES
  clock,      \* itk's global modification time (the last value handed out)
  poses,      \* the caller's Euler3DTransform objects: parameters and MTime
  engine,     \* the interpolator object: its members and its MTime
  image,      \* the input image (a volume of Volumes) given to the engine
  calls,      \* per thread: the position and the locals of its Evaluate call
  hist,       \* history of the session (what the last calls did)
  rayIn,      \* traversal study: source, destination, volume, threshold, type
  trav,       \* traversal study: the locals of the traversal loop
  rpc,        \* traversal study: position in Evaluate
  pixval      \* traversal study: the value returned

vars == <<clock, poses, engine, image, calls, hist, rayIn, trav, rpc, pixval>>

-----------------------------------------------------------------------------
(* Bounds of the model *)

\* coordinates of the source and destination points of the traversal study
\* range over -1 .. MaxCoord
MaxCoord == 3

\* largest modification time handed out in the geometry specifications
MaxMTime == 7

\* maximum of the narrow output type of the traversal study (its minimum is
\* the negated maximum, as NonpositiveMin() of a floating type)
NarrowMax == 4

\* the traversal study follows a loop for at most MaxSteps iterations
MaxSteps == 40

-----------------------------------------------------------------------------
(* Integer helpers *)

Abs(x) == IF x < 0 THEN -x ELSE x

Sgn(x) == IF x < 0 THEN -1 ELSE IF x > 0 THEN 1 ELSE 0

Min2(a, b) == IF b < a THEN b ELSE a

Max2(a, b) == IF a < b THEN b ELSE a

\* floor and ceil of the rational n / d, d > 0
FloorDiv(n, d) == n \div d

CeilDiv(n, d) == -((-n) \div d)

Axes == 1..3

\* the power of two q with 2^23 <= a / q < 2^24, for a >= 2^24: the distance
\* between neighbouring floats at a
RECURSIVE FloatQuantum(_)
FloatQuantum(a) == IF a < 16777216 THEN 1 ELSE 2 * FloatQuantum(a \div 2)

\* n stored in a float: rounded to 24 significant bits, ties to even
ToFloat(n) ==
  IF Abs(n) < 16777216
    THEN n
    ELSE LET q == FloatQuantum(Abs(n))
             m == Abs(n) \div q
             r == Abs(n) % q
         IN  Sgn(n) * q * (IF 2 * r > q \/ (2 * r = q /\ m % 2 = 1) THEN m + 1 ELSE m)

-----------------------------------------------------------------------------
(* The input image *)

\* Volumes the engine is given.  "kind" selects the intensities (Pixel).
Volumes ==
  [ ramp    |-> [size |-> <<2, 2, 2>>,    spacing |-> <<1, 1, 1>>, kind |-> "ramp"],
    slab    |-> [size |-> <<1, 2, 1>>,    spacing |-> <<2, 1, 1>>, kind |-> "ramp"],
    dark    |-> [size |-> <<2, 2, 2>>,    spacing |-> <<1, 1, 1>>, kind |-> "dark"],
    block   |-> [size |-> <<4, 4, 4>>,    spacing |-> <<1, 1, 1>>, kind |-> "ramp"],
    uniform |-> [size |-> <<10, 10, 10>>, spacing |-> <<1, 1, 1>>, kind |-> "uniform"] ]

\* inputPtr->GetPixel(cIndex)
Pixel(vol, idx) ==
  CASE vol.kind = "uniform" -> 100
    [] vol.kind = "dark"    -> idx[1] - 1
    [] OTHER                -> idx[1] + 2 * idx[2] + 3 * idx[3] - 1

\* the index test without its upper bounds
InGridNoUpper(vol, idx) ==
  \A k \in Axes : idx[k] >= 0

\* cIndex[k] >= 0 && cIndex[k] < sizeCT[k] on the three axes
InGrid(vol, idx) ==
  \A k \in Axes : idx[k] >= 0 /\ idx[k] < vol.size[k]

-----------------------------------------------------------------------------
(* The ray traversal of Evaluate, from SourceWorld and drrPixelWorld on *)

RayVector(S, D) == <<D[1] - S[1], D[2] - S[2], D[3] - S[3]>>

\* common denominator of the parametric values of one ray
Den(rv) ==
  (IF rv[1] = 0 THEN 1 ELSE Abs(rv[1])) *
  (IF rv[2] = 0 THEN 1 ELSE Abs(rv[2])) *
  (IF rv[3] = 0 THEN 1 ELSE Abs(rv[3]))

\* the parameter at which the ray meets the plane of axis k at coordinate
\* "plane", times Den; rayVector[k] # 0
AlphaExact(k, plane, S, rv) ==
  (plane - S[k]) * Sgn(rv[k]) * (Den(rv) \div Abs(rv[k]))

\* (plane - SourceWorld[k]) / rayVector[k] stored in a float, times Den
AlphaAt(k, plane, S, rv) == ToFloat(AlphaExact(k, plane, S, rv))

\* alphaXmin, alphaYmin, alphaZmin
AlphaAxisMin(k, S, rv, vol) ==
  IF rv[k] # 0
    THEN Min2(AlphaAt(k, 0, S, rv), AlphaAt(k, vol.size[k] * vol.spacing[k], S, rv))
    ELSE -2 * Den(rv)

\* alphaXmax, alphaYmax, alphaZmax
AlphaAxisMax(k, S, rv, vol) ==
  IF rv[k] # 0
    THEN Max2(AlphaAt(k, 0, S, rv), AlphaAt(k, vol.size[k] * vol.spacing[k], S, rv))
    ELSE 2 * Den(rv)

AlphaMin(S, rv, vol) ==
  Max2(Max2(AlphaAxisMin(1, S, rv, vol), AlphaAxisMin(2, S, rv, vol)),
       AlphaAxisMin(3, S, rv, vol))

AlphaMax(S, rv, vol) ==
  Min2(Min2(AlphaAxisMax(1, S, rv, vol), AlphaAxisMax(2, S, rv, vol)),
       AlphaAxisMax(3, S, rv, vol))

\* the factor firstIntersection[k] is stored with: Den / |rayVector[k]|,
\* which makes SourceWorld[k] + alphaMin * rayVector[k] an integer
FirstScale(k, rv) == IF rv[k] = 0 THEN 1 ELSE Den(rv) \div Abs(rv[k])

\* firstIntersection[k] times FirstScale
FirstIntersection(k, S, rv, vol) ==
  IF rv[k] = 0
    THEN S[k]
    ELSE S[k] * FirstScale(k, rv) + AlphaMin(S, rv, vol) * Sgn(rv[k])

\* (int)ceil(firstIntersectionIndex[k])
FirstIntersectionIndexUp(k, S, rv, vol) ==
  CeilDiv(FirstIntersection(k, S, rv, vol), FirstScale(k, rv) * vol.spacing[k])

\* (int)floor(firstIntersectionIndex[k])
FirstIntersectionIndexDown(k, S, rv, vol) ==
  FloorDiv(FirstIntersection(k, S, rv, vol), FirstScale(k, rv) * vol.spacing[k])

\* the initial alphaX, alphaY, alphaZ
AlphaFirst(k, S, rv, vol) ==
  IF rv[k] = 0
    THEN 2 * Den(rv)
    ELSE Max2(AlphaAt(k, FirstIntersectionIndexUp(k, S, rv, vol) * vol.spacing[k], S, rv),
              AlphaAt(k, FirstIntersectionIndexDown(k, S, rv, vol) * vol.spacing[k], S, rv))

\* alphaUx, alphaUy, alphaUz
AlphaU(k, rv, vol) ==
  IF rv[k] # 0
    THEN ToFloat(vol.spacing[k] * (Den(rv) \div Abs(rv[k])))
    ELSE 999 * Den(rv)

\* iU, jU, kU
IndexU(k, S, D) == IF S[k] < D[k] THEN 1 ELSE -1

\* the locals of the loop as the loop is entered.  "reads" is the list of
\* the indices GetPixel has been called with; "steps" counts the iterations.
TraversalStart(S, D, vol) ==
  LET rv == RayVector(S, D)
      a  == <<AlphaFirst(1, S, rv, vol), AlphaFirst(2, S, rv, vol),
              AlphaFirst(3, S, rv, vol)>>
  IN  [ alpha         |-> a,
        alphaCmin     |-> Min2(Min2(a[1], a[2]), a[3]),
        alphaCminPrev |-> Min2(Min2(a[1], a[2]), a[3]),
        cIndex        |-> <<FirstIntersectionIndexDown(1, S, rv, vol),
                            FirstIntersectionIndexDown(2, S, rv, vol),
                            FirstIntersectionIndexDown(3, S, rv, vol)>>,
        d12           |-> 0,
        reads         |-> << >>,
        steps         |-> 0 ]

\* the loop condition with <= for <
LoopConditionInclusive(t, S, D, vol) ==
  t.alphaCmin <= AlphaMax(S, RayVector(S, D), vol)

\* while (alphaCmin < alphaMax)
LoopCondition(t, S, D, vol) ==
  t.alphaCmin < AlphaMax(S, RayVector(S, D), vol)

\* the axis the iteration advances
StepAxis(a) ==
  IF a[1] <= a[2] /\ a[1] <= a[3] THEN 1
  ELSE IF a[2] <= a[1] /\ a[2] <= a[3] THEN 2
  ELSE 3

\* the contribution without the test value > m_Threshold
ContributionNoThreshold(value, threshold, alphaCmin, alphaCminPrev) ==
  (alphaCmin - alphaCminPrev) * (value - threshold)

\* the amount one iteration adds to d12
Contribution(value, threshold, alphaCmin, alphaCminPrev) ==
  IF value > threshold
    THEN (alphaCmin - alphaCminPrev) * (value - threshold)
    ELSE 0

\* one iteration of the loop
TraversalStep(t, S, D, vol, threshold) ==
  LET rv  == RayVector(S, D)
      ax  == StepAxis(t.alpha)
      ac  == t.alpha[ax]
      idx == [t.cIndex EXCEPT ![ax] = @ + IndexU(ax, S, D)]
      in  == InGrid(vol, idx)
  IN  [ alpha         |-> [t.alpha EXCEPT ![ax] = ToFloat(@ + AlphaU(ax, rv, vol))],
        alphaCmin     |-> ac,
        alphaCminPrev |-> t.alphaCmin,
        cIndex        |-> idx,
        d12           |-> IF in
                            THEN ToFloat(t.d12 + Contribution(Pixel(vol, idx), threshold,
                                                              ac, t.alphaCmin))
                            ELSE t.d12,
        reads         |-> IF in THEN Append(t.reads, idx) ELSE t.reads,
        steps         |-> t.steps + 1 ]

\* the loop run to its end
RECURSIVE TraversalRun(_, _, _, _, _)
TraversalRun(t, S, D, vol, threshold) ==
  IF LoopCondition(t, S, D, vol)
    THEN TraversalRun(TraversalStep(t, S, D, vol, threshold), S, D, vol, threshold)
    ELSE t

\* Output types the engine is instantiated with: [NonpositiveMin(), max()].
\* "wide" stands for double, "narrow" for a type whose range d12 can leave.
OutputTypes ==
  [ narrow |-> [min |-> -NarrowMax, max |-> NarrowMax],
    wide   |-> [min |-> -1000000,   max |-> 1000000] ]

\* the clamp without its upper branch
ClampOutputNoMax(d12, den, outT) ==
  IF d12 < outT.min * den THEN outT.min * den ELSE d12

\* the clamp of d12 to the output type; d12 and the result are times den
ClampOutput(d12, den, outT) ==
  IF d12 < outT.min * den THEN outT.min * den
  ELSE IF d12 > outT.max * den THEN outT.max * den
  ELSE d12

\* the value Evaluate returns for a ray, as the fraction <<numerator, den>>
RayCast(S, D, vol, threshold, outT) ==
  LET den == Den(RayVector(S, D))
      t   == TraversalRun(TraversalStart(S, D, vol), S, D, vol, threshold)
  IN  <<ClampOutput(t.d12, den, outT), den>>

-----------------------------------------------------------------------------
(* Points, matrices and Euler3DTransform values *)

VAdd(a, b) == <<a[1] + b[1], a[2] + b[2], a[3] + b[3]>>

VSub(a, b) == <<a[1] - b[1], a[2] - b[2], a[3] - b[3]>>

RowVec(r, v) == r[1] * v[1] + r[2] * v[2] + r[3] * v[3]

MatVec(M, v) == <<RowVec(M[1], v), RowVec(M[2], v), RowVec(M[3], v)>>

MatColumn(M, j) == <<M[1][j], M[2][j], M[3][j]>>

MatTranspose(M) == <<MatColumn(M, 1), MatColumn(M, 2), MatColumn(M, 3)>>

MatMul(A, B) ==
  MatTranspose(<<MatVec(A, MatColumn(B, 1)), MatVec(A, MatColumn(B, 2)),
                 MatVec(A, MatColumn(B, 3))>>)

IdentityMatrix == <<<<1, 0, 0>>, <<0, 1, 0>>, <<0, 0, 1>>>>

Origin == <<0, 0, 0>>

\* cosine and sine of q quarter turns
CosQ(q) == <<1, 0, -1, 0>>[(q % 4) + 1]

SinQ(q) == <<0, 1, 0, -1>>[(q % 4) + 1]

\* rotation of q quarter turns about the x axis
RotX(q) == <<<<1, 0, 0>>, <<0, CosQ(q), -SinQ(q)>>, <<0, SinQ(q), CosQ(q)>>>>

\* rotation of q quarter turns about the z axis
RotZ(q) == <<<<CosQ(q), -SinQ(q), 0>>, <<SinQ(q), CosQ(q), 0>>, <<0, 0, 1>>>>

\* An Euler3DTransform is held as its parameters: quarter turns about x and
\* z, translation and center.  Its matrix and offset follow from them.
EulerIdentity ==
  [angleX |-> 0, angleZ |-> 0, translation |-> Origin, center |-> Origin]

EulerMatrix(t) == MatMul(RotZ(t.angleZ), RotX(t.angleX))

\* ComputeOffset: offset = translation + center - matrix * center
EulerOffset(t) ==
  VSub(VAdd(t.translation, t.center), MatVec(EulerMatrix(t), t.center))

\* the matrix and the offset of a transform object
Affine(t) == [matrix |-> EulerMatrix(t), offset |-> EulerOffset(t)]

AffineIdentity == [matrix |-> IdentityMatrix, offset |-> Origin]

\* self->Compose(other, 0): other is applied after self
Compose(self, other) ==
  [ matrix |-> MatMul(other.matrix, self.matrix),
    offset |-> VAdd(MatVec(other.matrix, self.offset), other.offset) ]

\* GetInverse of a rigid transform
GetInverse(t) ==
  [ matrix |-> MatTranspose(t.matrix),
    offset |-> VSub(Origin, MatVec(MatTranspose(t.matrix), t.offset)) ]

TransformPoint(t, p) == VAdd(MatVec(t.matrix, p), t.offset)

-----------------------------------------------------------------------------
(* The interpolator object *)

\* m_SourcePoint, set by the constructor and never changed
SourcePoint == Origin

\* m_CamRotTransform: SetRotation(dtr * (-90.0), 0.0, 0.0) in the constructor
CamRotTransform ==
  [angleX |-> -1, angleZ |-> 0, translation |-> Origin, center |-> Origin]

\* m_SourceWorld is not initialized by the constructor, and no code reads it
\* before Initialize() has stored a point in it
Uninitialized == << >>

\* the members after the constructor; mtime is the object's modification time
EngineConstructed(mtime) ==
  [ m_Transform                     |-> "null",
    m_FocalPointToIsocenterDistance |-> 1000,
    m_ProjectionAngle               |-> 0,
    m_Threshold                     |-> 0,
    m_InverseTransform              |-> AffineIdentity,
    m_ComposedTransform             |-> AffineIdentity,
    m_GantryRotTransform            |-> EulerIdentity,
    m_CamShiftTransform             |-> EulerIdentity,
    m_SourceWorld                   |-> Uninitialized,
    mtime                           |-> mtime ]

\* SetIdentity() left out: the composition goes on from the last one
ComposedResetKeeps(e) == e.m_ComposedTransform

\* m_ComposedTransform->SetIdentity()
ComposedReset(e) == AffineIdentity

\* the gantry rotation: SetRotation(0, 0, -m_ProjectionAngle); SetCenter(isocenter)
GantryRot(e, isocenter) ==
  [e.m_GantryRotTransform EXCEPT !.angleZ = -e.m_ProjectionAngle,
                                 !.center = isocenter]

\* the camera shift: SetTranslation(focalpointtranslation)
CamShift(e, isocenter) ==
  [e.m_CamShiftTransform EXCEPT
     !.translation = << -isocenter[1],
                        e.m_FocalPointToIsocenterDistance - isocenter[2],
                        -isocenter[3] >>]

\* ComputeInverseTransform, statement by statement.
\* SetIdentity(); Compose(m_Transform, 0)
ComposePose(e, ps) ==
  [e EXCEPT !.m_ComposedTransform =
              Compose(ComposedReset(e), Affine(ps[e.m_Transform].params))]

\* the gantry step with the sign change written into m_ProjectionAngle
ComposeGantryNegatesAngle(e, ps) ==
  LET gantry == GantryRot(e, ps[e.m_Transform].params.center)
  IN  [e EXCEPT !.m_GantryRotTransform = gantry,
                !.m_ComposedTransform  = Compose(@, Affine(gantry)),
                !.m_ProjectionAngle    = -@]

\* isocenter = m_Transform->GetCenter(); the gantry rotation is set and composed
ComposeGantry(e, ps) ==
  LET gantry == GantryRot(e, ps[e.m_Transform].params.center)
  IN  [e EXCEPT !.m_GantryRotTransform = gantry,
                !.m_ComposedTransform  = Compose(@, Affine(gantry))]

\* the camera shift is set and composed
ComposeShift(e, ps) ==
  LET shift == CamShift(e, ps[e.m_Transform].params.center)
  IN  [e EXCEPT !.m_CamShiftTransform = shift,
                !.m_ComposedTransform = Compose(@, Affine(shift))]

\* Compose(m_CamRotTransform, 0)
ComposeCamRot(e) ==
  [e EXCEPT !.m_ComposedTransform = Compose(@, Affine(CamRotTransform))]

\* m_ComposedTransform->GetInverse(m_InverseTransform)
InvertComposed(e) ==
  [e EXCEPT !.m_InverseTransform = GetInverse(e.m_ComposedTransform)]

\* Modified() left out
ModifiedNot(e, now) == e

\* this->Modified(): the object takes the modification time now
Modified(e, now) == [e EXCEPT !.mtime = now]

ComputeInverseTransform(e, ps, now) ==
  Modified(InvertComposed(ComposeCamRot(ComposeShift(ComposeGantry(
             ComposePose(e, ps), ps), ps))), now)

\* Initialize()
InitializeEngine(e, ps, now) ==
  LET built == ComputeInverseTransform(e, ps, now)
  IN  [built EXCEPT !.m_SourceWorld =
                       TransformPoint(built.m_InverseTransform, SourcePoint)]

\* Evaluate: whether the cache is rebuilt (interpMTime < vTransformMTime)
Stale(interpMTime, vTransformMTime) == interpMTime < vTransformMTime

\* Evaluate: the value returned once the cache question is settled, for the
\* inverse transform the call reads
EvaluateRay(inverse, point, vol, threshold) ==
  RayCast(TransformPoint(inverse, SourcePoint), TransformPoint(inverse, point),
          vol, threshold, OutputTypes.wide)

\* The whole of Evaluate(point): the engine afterwards and what the call did
EvaluateEngine(e, ps, now, point, vol) ==
  LET rebuild == Stale(e.mtime, ps[e.m_Transform].mtime)
      after   == IF rebuild THEN ComputeInverseTransform(e, ps, now) ELSE e
  IN  [ engine      |-> after,
        rebuilt     |-> rebuild,
        sourceWorld |-> TransformPoint(after.m_InverseTransform, SourcePoint),
        inverse     |-> after.m_InverseTransform,
        result      |-> EvaluateRay(after.m_InverseTransform, point, vol,
                                    after.m_Threshold) ]

\* itkSetMacro / itkSetObjectMacro: assign and call Modified() when the value
\* differs from the member
SetMember(e, field, value, now) ==
  IF e[field] # value
    THEN [e EXCEPT ![field] = value, !.mtime = now]
    ELSE e

-----------------------------------------------------------------------------
(* The session: one caller configuring the engine and evaluating points *)

Threads == {"a", "b"}

PoseObjects == {"T1", "T2"}

\* parameter values the caller gives its pose objects
PoseValues ==
  { [angleX |-> 0, angleZ |-> 0, translation |-> Origin,      center |-> <<2, 2, 2>>],
    [angleX |-> 0, angleZ |-> 1, translation |-> <<0, 0, 1>>, center |-> <<2, 1, 2>>] }

DistanceValues == {1000, 3}

AngleValues == {0, 1}

ThresholdValues == {0, 2}

\* detector points handed to Evaluate
EvalPoints == { <<0, 0, -1006>>, <<-1, 1, -1006>> }

CallIdle ==
  [pc |-> "idle", point |-> Origin, interpMTime |-> 0, vTransformMTime |-> 0,
   SourceWorld |-> Origin, drrPixelWorld |-> Origin, result |-> <<0, 1>>,
   alone |-> <<0, 1>>, wrote |-> FALSE]

HistNone ==
  [ op          |-> "none",
    again       |-> FALSE,     \* the call before was the same operation
    rebuilt     |-> FALSE,     \* the call rebuilt the geometry cache
    hadBuild    |-> FALSE,     \* a rebuild had happened before the call
    wasStale    |-> FALSE,     \* at the call, the pose was modified after the last rebuild
    buildMTime  |-> 0,         \* the modification time the last rebuild recorded (0: none)
    initMTime   |-> 0,         \* the modification time the last Initialize recorded (0: none)
    point       |-> Origin,    \* the argument of the last Evaluate
    result      |-> <<0, 1>>,  \* what it returned
    sourceWorld |-> Origin,    \* the source point of its ray
    inverse     |-> AffineIdentity ]   \* the inverse transform it read

\* the traversal study's variables while the session runs
RayIdle ==
  /\ rayIn = [S |-> Origin, D |-> Origin, vol |-> "ramp", threshold |-> 0, outT |-> "wide"]
  /\ trav = TraversalStart(Origin, Origin, Volumes.ramp)
  /\ rpc = "off"
  /\ pixval = <<0, 1>>

\* After construction of the engine and of two pose objects, one made before
\* the engine and one after it.
Constructed ==
  /\ clock = 3
  /\ poses = [o \in PoseObjects |->
                [ params |-> [angleX |-> 0, angleZ |-> 0, translation |-> Origin,
                              center |-> <<2, 2, 2>>],
                  mtime  |-> IF o = "T1" THEN 1 ELSE 3 ]]
  /\ engine = EngineConstructed(2)
  /\ image = "block"
  /\ calls = [t \in Threads |-> CallIdle]
  /\ hist = HistNone

Init ==
  /\ Constructed
  /\ RayIdle

\* the history after a call that is neither Initialize nor Evaluate
HistAfter(op) ==
  [HistNone EXCEPT !.op = op, !.buildMTime = hist.buildMTime,
                   !.initMTime = hist.initMTime]

\* the caller sets the parameters of a pose object: SetParameters calls
\* Modified() whether or not the values differ
ModifyPose(o, v) ==
  /\ clock < MaxMTime
  /\ clock' = clock + 1
  /\ poses' = [poses EXCEPT ![o] = [params |-> v, mtime |-> clock + 1]]
  /\ hist' = HistAfter("ModifyPose")
  /\ UNCHANGED <<engine, image, calls, rayIn, trav, rpc, pixval>>

\* a setter of the engine
Setter(op, field, value) ==
  /\ engine[field] # value => clock < MaxMTime
  /\ engine' = SetMember(engine, field, value, clock + 1)
  /\ clock' = IF engine[field] # value THEN clock + 1 ELSE clock
  /\ hist' = HistAfter(op)
  /\ UNCHANGED <<poses, image, calls, rayIn, trav, rpc, pixval>>

SetTransform(o) == Setter("SetTransform", "m_Transform", o)

SetFocalPointToIsocenterDistance(d) ==
  Setter("SetFocalPointToIsocenterDistance", "m_FocalPointToIsocenterDistance", d)

SetProjectionAngle(a) == Setter("SetProjectionAngle", "m_ProjectionAngle", a)

SetThreshold(v) == Setter("SetThreshold", "m_Threshold", v)

\* Initialize(); the caller has connected a transform
Initialize ==
  /\ clock < MaxMTime
  /\ engine.m_Transform # "null"
  /\ engine' = InitializeEngine(engine, poses, clock + 1)
  /\ clock' = clock + 1
  /\ hist' = [HistNone EXCEPT !.op = "Initialize", !.rebuilt = TRUE,
                              !.again = (hist.op = "Initialize"),
                              !.hadBuild = (hist.buildMTime > 0),
                              !.buildMTime = clock + 1, !.initMTime = clock + 1]
  /\ UNCHANGED <<poses, image, calls, rayIn, trav, rpc, pixval>>

\* Evaluate(point), from entry to return; the caller has connected a transform
Evaluate(point) ==
  /\ engine.m_Transform # "null"
  /\ Stale(engine.mtime, poses[engine.m_Transform].mtime) => clock < MaxMTime
  /\ LET ev == EvaluateEngine(engine, poses, clock + 1, point, Volumes[image])
     IN  /\ engine' = ev.engine
         /\ clock' = IF ev.rebuilt THEN clock + 1 ELSE clock
         /\ hist' = [ op          |-> "Evaluate",
                      again       |-> hist.op = "Evaluate",
                      rebuilt     |-> ev.rebuilt,
                      hadBuild    |-> hist.buildMTime > 0,
                      wasStale    |-> poses[engine.m_Transform].mtime > hist.buildMTime,
                      buildMTime  |-> IF ev.rebuilt THEN clock + 1 ELSE hist.buildMTime,
                      initMTime   |-> hist.initMTime,
                      point       |-> point,
                      result      |-> ev.result,
                      sourceWorld |-> ev.sourceWorld,
                      inverse     |-> ev.inverse ]
  /\ UNCHANGED <<poses, image, calls, rayIn, trav, rpc, pixval>>

Next ==
  \/ \E o \in PoseObjects, v \in PoseValues : ModifyPose(o, v)
  \/ \E o \in PoseObjects : SetTransform(o)
  \/ \E d \in DistanceValues : SetFocalPointToIsocenterDistance(d)
  \/ \E a \in AngleValues : SetProjectionAngle(a)
  \/ \E v \in ThresholdValues : SetThreshold(v)
  \/ Initialize
  \/ \E p \in EvalPoints : Evaluate(p)

Spec == Init /\ [][Next]_vars

-----------------------------------------------------------------------------
(* Concurrent evaluation: the caller configures the engine while no call   *)
(* is in flight, and the threads run Evaluate side by side, one access to  *)
(* the shared members per step.                                            *)

NoCallInFlight == \A t \in Threads : calls[t].pc = "idle"

\* positions of Evaluate inside ComputeInverseTransform
RebuildPcs ==
  {"composePose", "composeGantry", "composeShift", "composeCamRot", "invert", "modified"}

SharedUnchanged == UNCHANGED <<clock, poses, engine, image, hist, rayIn, trav, rpc, pixval>>

\* entry of Evaluate(point) and interpMTime = this->GetMTime().  "alone"
\* keeps what the call returns when it runs alone from this state; "wrote"
\* tells whether the call has written a member of the engine.
EvBegin(t, point) ==
  /\ calls[t].pc = "idle"
  /\ engine.m_Transform # "null"
  /\ calls' = [calls EXCEPT ![t] =
                 [CallIdle EXCEPT !.pc = "vtime", !.point = point,
                                  !.interpMTime = engine.mtime,
                                  !.alone = EvaluateEngine(engine, poses, clock + 1, point,
                                                           Volumes[image]).result]]
  /\ SharedUnchanged

\* vTransformMTime = m_Transform->GetMTime() and the test of the two times
EvReadTransformMTime(t) ==
  /\ calls[t].pc = "vtime"
  /\ LET vt == poses[engine.m_Transform].mtime
     IN  calls' = [calls EXCEPT ![t].vTransformMTime = vt,
                                ![t].pc = IF Stale(calls[t].interpMTime, vt)
                                            THEN "composePose" ELSE "source"]
  /\ SharedUnchanged

\* a statement of ComputeInverseTransform that writes the engine
EvRebuildStep(t, at, after, next) ==
  /\ calls[t].pc = at
  /\ engine' = after
  /\ calls' = [calls EXCEPT ![t].pc = next, ![t].wrote = TRUE]
  /\ UNCHANGED <<clock, poses, image, hist, rayIn, trav, rpc, pixval>>

EvComposePose(t) ==
  EvRebuildStep(t, "composePose", ComposePose(engine, poses), "composeGantry")

EvComposeGantry(t) ==
  EvRebuildStep(t, "composeGantry", ComposeGantry(engine, poses), "composeShift")

EvComposeShift(t) ==
  EvRebuildStep(t, "composeShift", ComposeShift(engine, poses), "composeCamRot")

EvComposeCamRot(t) ==
  EvRebuildStep(t, "composeCamRot", ComposeCamRot(engine), "invert")

EvInvert(t) ==
  EvRebuildStep(t, "invert", InvertComposed(engine), "modified")

\* this->Modified() at the end of ComputeInverseTransform
EvModified(t) ==
  /\ calls[t].pc = "modified"
  /\ clock < MaxMTime
  /\ clock' = clock + 1
  /\ engine' = Modified(engine, clock + 1)
  /\ calls' = [calls EXCEPT ![t].pc = "source", ![t].wrote = TRUE]
  /\ UNCHANGED <<poses, image, hist, rayIn, trav, rpc, pixval>>

\* SourceWorld = m_InverseTransform->TransformPoint(m_SourcePoint)
EvSource(t) ==
  /\ calls[t].pc = "source"
  /\ calls' = [calls EXCEPT ![t].SourceWorld =
                               TransformPoint(engine.m_InverseTransform, SourcePoint),
                            ![t].pc = "pixel"]
  /\ SharedUnchanged

\* drrPixelWorld = m_InverseTransform->TransformPoint(point), the traversal
\* (which reads the image and m_Threshold) and the clamp
EvPixel(t) ==
  /\ calls[t].pc = "pixel"
  /\ LET drr == TransformPoint(engine.m_InverseTransform, calls[t].point)
     IN  calls' = [calls EXCEPT ![t].drrPixelWorld = drr,
                                ![t].result = RayCast(calls[t].SourceWorld, drr,
                                                      Volumes[image], engine.m_Threshold,
                                                      OutputTypes.wide),
                                ![t].pc = "done"]
  /\ SharedUnchanged

\* the call has returned
EvReturn(t) ==
  /\ calls[t].pc = "done"
  /\ calls' = [calls EXCEPT ![t] = CallIdle]
  /\ SharedUnchanged

NextConc ==
  \/ NoCallInFlight /\ \E v \in PoseValues : ModifyPose("T1", v)
  \/ NoCallInFlight /\ SetTransform("T1")
  \/ NoCallInFlight /\ \E a \in AngleValues : SetProjectionAngle(a)
  \/ NoCallInFlight /\ Initialize
  \/ \E t \in Threads, p \in EvalPoints : EvBegin(t, p)
  \/ \E t \in Threads :
       \/ EvReadTransformMTime(t)
       \/ EvComposePose(t)
       \/ EvComposeGantry(t)
       \/ EvComposeShift(t)
       \/ EvComposeCamRot(t)
       \/ EvInvert(t)
       \/ EvModified(t)
       \/ EvSource(t)
       \/ EvPixel(t)
       \/ EvReturn(t)

SpecConc == Init /\ [][NextConc]_vars

-----------------------------------------------------------------------------
(* Properties of the geometry cache (checked under Spec) *)

\* the inverse transform a rebuild makes from the values now set
InverseNow ==
  ComputeInverseTransform(engine, poses, clock).m_InverseTransform

\* C1: an Evaluate call rebuilds the geometry cache if and only if the
\* pose's modification time is greater than the one recorded at the last
\* rebuild, whatever setters were called in between (stated for calls that
\* follow a first rebuild).
C1_RebuildIffPoseNewer ==
  (hist.op = "Evaluate" /\ hist.hadBuild) => (hist.rebuilt <=> hist.wasStale)

\* C2: after setter calls for the pose, the focal distance or the angle, the
\* next Evaluate computes its ray with the inverse transform built from the
\* values currently set.
C2_SettersInvalidate ==
  hist.op = "Evaluate" => hist.inverse = InverseNow

\* C9: Initialize() called twice in a row leaves the composed transform, the
\* inverse transform and the cached source-world point as the first call
\* left them, and Evaluate returns the same value for every point.
C9_InitializeIdempotent ==
  [][ (hist.op = "Initialize" /\ hist'.op = "Initialize")
      => /\ engine'.m_ComposedTransform = engine.m_ComposedTransform
         /\ engine'.m_InverseTransform = engine.m_InverseTransform
         /\ engine'.m_SourceWorld = engine.m_SourceWorld
         /\ \A p \in EvalPoints :
              EvaluateEngine(engine', poses', clock', p, Volumes[image']).result
                = EvaluateEngine(engine, poses, clock, p, Volumes[image]).result ]_vars

\* Initialize() has been called twice in a row on a geometry that is not the
\* identity
C9_Witness ==
  /\ hist.op = "Initialize"
  /\ hist.again
  /\ engine.m_ProjectionAngle # 0
  /\ engine.m_SourceWorld # Origin

\* C10: a rebuild of the geometry cache, by Initialize() or by a stale
\* Evaluate, leaves the caller's pose (parameters, center, modification
\* time), the focal distance, the angle and the threshold unchanged.
C10_RebuildFrame ==
  [][ hist'.rebuilt
      => /\ poses' = poses
         /\ engine'.m_Transform = engine.m_Transform
         /\ engine'.m_FocalPointToIsocenterDistance = engine.m_FocalPointToIsocenterDistance
         /\ engine'.m_ProjectionAngle = engine.m_ProjectionAngle
         /\ engine'.m_Threshold = engine.m_Threshold
         /\ image' = image ]_vars

\* a stale Evaluate has rebuilt the cache of a configured engine
C10_Witness ==
  /\ hist.op = "Evaluate"
  /\ hist.rebuilt
  /\ engine.m_ProjectionAngle # 0
  /\ engine.m_InverseTransform = InverseNow

\* Initialize() has completed and the connected pose has not been modified
\* since
InitializedAndPoseUnmodified ==
  /\ hist.initMTime > 0
  /\ engine.m_Transform # "null"
  /\ poses[engine.m_Transform].mtime < hist.initMTime

\* C3 (checked under SpecConc): once Initialize() has completed and the pose
\* is not modified afterwards, in every interleaving of concurrent Evaluate
\* calls no call rebuilds the cache or writes a shared member of the engine,
\* and each call returns what it returns when run alone.
C3_ConcurrentEvaluateReadsOnly ==
  InitializedAndPoseUnmodified
    => \A t \in Threads :
         /\ calls[t].pc \notin RebuildPcs
         /\ ~calls[t].wrote
         /\ calls[t].pc = "done" => calls[t].result = calls[t].alone

\* after Initialize(), one call has returned a non-zero value while the
\* other call, for another point, is between its two reads of the inverse
\* transform
C3_Witness ==
  /\ InitializedAndPoseUnmodified
  /\ engine.m_ProjectionAngle # 0
  /\ calls["a"].pc = "done"
  /\ calls["a"].result[1] # 0
  /\ calls["b"].pc = "pixel"
  /\ calls["b"].point # calls["a"].point

-----------------------------------------------------------------------------
(* The traversal study: Evaluate from the computation of the ray on, for   *)
(* source and destination points drawn from a grid around the volume, one  *)
(* loop iteration per step.                                                *)

Coords == -1 .. MaxCoord

\* destination points lie in or on the small volumes
DestCoords == 0 .. 2

\* rays through the 10 x 10 x 10 volume of uniform intensity 100
UniformRays ==
  { [S |-> <<5, 5, -1000>>, D |-> <<5, 5, 5>>],
    [S |-> <<5, 5, 1000>>,  D |-> <<5, 5, 5>>],
    [S |-> <<-20, 5, 5>>,   D |-> <<30, 5, 5>>] }

\* half the length of the far ray: 2^25 spacings
Far == 33554432

\* a ray along the x axis through the 10 x 10 x 10 volume whose source is
\* Far away from it
FarRays ==
  { [S |-> <<-Far, 5, 5>>, D |-> <<Far, 5, 5>>] }

RayInputs ==
  { [S |-> <<sx, sy, sz>>, D |-> <<dx, dy, dz>>, vol |-> v, threshold |-> th, outT |-> ot] :
      sx \in Coords, sy \in Coords, sz \in Coords,
      dx \in DestCoords, dy \in DestCoords, dz \in DestCoords,
      v \in {"ramp", "slab", "dark"}, th \in ThresholdValues,
      ot \in {"narrow", "wide"} }
  \cup
  { [S |-> r.S, D |-> r.D, vol |-> "uniform", threshold |-> 0, outT |-> "wide"] :
      r \in UniformRays \cup FarRays }

\* Evaluate has computed the ray and stands before the loop
InitRay ==
  /\ Constructed
  /\ rayIn \in RayInputs
  /\ trav = TraversalStart(rayIn.S, rayIn.D, Volumes[rayIn.vol])
  /\ rpc = "loop"
  /\ pixval = <<0, 1>>

\* one iteration of while (alphaCmin < alphaMax)
RayLoop ==
  /\ rpc = "loop"
  /\ trav.steps < MaxSteps
  /\ LoopCondition(trav, rayIn.S, rayIn.D, Volumes[rayIn.vol])
  /\ trav' = TraversalStep(trav, rayIn.S, rayIn.D, Volumes[rayIn.vol], rayIn.threshold)
  /\ UNCHANGED <<clock, poses, engine, image, calls, hist, rayIn, rpc, pixval>>

\* the loop is left: clamp d12 and return
RayReturn ==
  /\ rpc = "loop"
  /\ ~LoopCondition(trav, rayIn.S, rayIn.D, Volumes[rayIn.vol])
  /\ pixval' = <<ClampOutput(trav.d12, Den(RayVector(rayIn.S, rayIn.D)),
                             OutputTypes[rayIn.outT]),
                 Den(RayVector(rayIn.S, rayIn.D))>>
  /\ rpc' = "done"
  /\ UNCHANGED <<clock, poses, engine, image, calls, hist, rayIn, trav>>

NextRay == RayLoop \/ RayReturn

SpecRay == InitRay /\ [][NextRay]_vars

-----------------------------------------------------------------------------
(* Properties of the traversal (checked under SpecRay) *)

RayS == rayIn.S

RayD == rayIn.D

RayVol == Volumes[rayIn.vol]

RayDen == Den(RayVector(RayS, RayD))

RayAlphaMin == AlphaMin(RayS, RayVector(RayS, RayD), RayVol)

RayAlphaMax == AlphaMax(RayS, RayVector(RayS, RayD), RayVol)

GridIndices(vol) ==
  { <<i, j, k>> : i \in 0 .. vol.size[1] - 1, j \in 0 .. vol.size[2] - 1,
                  k \in 0 .. vol.size[3] - 1 }

\* The parametric interval (times Den) in which the ray is strictly inside
\* voxel idx on axis k; on an axis without displacement the ray is inside
\* the voxel for every alpha or for none.
VoxelEnter(k, idx, S, rv, vol) ==
  IF rv[k] # 0
    THEN Min2(AlphaExact(k, idx[k] * vol.spacing[k], S, rv),
              AlphaExact(k, (idx[k] + 1) * vol.spacing[k], S, rv))
    ELSE IF FloorDiv(S[k], vol.spacing[k]) = idx[k] THEN -1000000 ELSE 1000000

VoxelLeave(k, idx, S, rv, vol) ==
  IF rv[k] # 0
    THEN Max2(AlphaExact(k, idx[k] * vol.spacing[k], S, rv),
              AlphaExact(k, (idx[k] + 1) * vol.spacing[k], S, rv))
    ELSE IF FloorDiv(S[k], vol.spacing[k]) = idx[k] THEN 1000000 ELSE -1000000

\* where the ray enters and leaves voxel idx between alphaMin and alphaMax
EnterAlpha(idx, S, D, vol) ==
  LET rv == RayVector(S, D)
  IN  Max2(AlphaMin(S, rv, vol),
           Max2(Max2(VoxelEnter(1, idx, S, rv, vol), VoxelEnter(2, idx, S, rv, vol)),
                VoxelEnter(3, idx, S, rv, vol)))

LeaveAlpha(idx, S, D, vol) ==
  LET rv == RayVector(S, D)
  IN  Min2(AlphaMax(S, rv, vol),
           Min2(Min2(VoxelLeave(1, idx, S, rv, vol), VoxelLeave(2, idx, S, rv, vol)),
                VoxelLeave(3, idx, S, rv, vol)))

\* the in-grid voxels the ray passes through between alphaMin and alphaMax
PassedVoxels(S, D, vol) ==
  { idx \in GridIndices(vol) : EnterAlpha(idx, S, D, vol) < LeaveAlpha(idx, S, D, vol) }

UnitStep(a, b) ==
  Abs(a[1] - b[1]) + Abs(a[2] - b[2]) + Abs(a[3] - b[3]) = 1

\* C4: for a volume of uniform intensity v > threshold and a ray that fully
\* crosses it over a length L, Evaluate returns (v - threshold) * L up to one
\* voxel diagonal.  The rays of UniformRays run along an axis through the
\* 10 x 10 x 10 volume of spacing 1 and intensity 100, so L = 10 and the
\* voxel diagonal is sqrt(3) < 2; the first of them is the scenario
\* (5,5,-1000) -> (5,5,5) with expected value 1000.  pixval is the fraction
\* pixval[1] / pixval[2].
C4_UniformPathLength ==
  (rpc = "done" /\ rayIn.vol = "uniform")
    => LET expected == (100 - rayIn.threshold) * 10
       IN  Abs(pixval[1] - expected * pixval[2]) <= 2 * pixval[2]

\* C5: for every ray (source # destination) that intersects the volume, the
\* voxels read by the traversal are exactly the in-grid voxels the ray
\* passes through between alphaMin and alphaMax, in order along the ray,
\* none twice, consecutive ones one unit apart on one axis.
C5_ExactVoxels ==
  (rpc = "done" /\ RayS # RayD /\ RayAlphaMin < RayAlphaMax)
    => LET reads == trav.reads
       IN  /\ { reads[i] : i \in 1 .. Len(reads) } = PassedVoxels(RayS, RayD, RayVol)
           /\ \A i, j \in 1 .. Len(reads) : i < j => reads[i] # reads[j]
           /\ \A i \in 1 .. Len(reads) - 1 :
                /\ UnitStep(reads[i], reads[i + 1])
                /\ EnterAlpha(reads[i], RayS, RayD, RayVol)
                     < EnterAlpha(reads[i + 1], RayS, RayD, RayVol)

\* C6: an iteration that reads a voxel of intensity <= threshold leaves d12
\* unchanged, and when every voxel of the volume is <= threshold Evaluate
\* returns exactly 0.
AllBelowThreshold ==
  \A idx \in GridIndices(RayVol) : Pixel(RayVol, idx) <= rayIn.threshold

C6_BelowThresholdAddsNothing ==
  /\ [][ (trav' # trav /\ InGrid(RayVol, trav'.cIndex)
            /\ Pixel(RayVol, trav'.cIndex) <= rayIn.threshold)
         => trav'.d12 = trav.d12 ]_vars
  /\ [](AllBelowThreshold => (trav.d12 = 0 /\ (rpc = "done" => pixval[1] = 0)))

\* a dark volume was traversed over several voxels and 0 was returned
C6_Witness ==
  /\ rpc = "done"
  /\ AllBelowThreshold
  /\ Len(trav.reads) >= 2
  /\ trav.alphaCmin > trav.alphaCminPrev
  /\ Pixel(RayVol, trav.reads[1]) < rayIn.threshold
  /\ pixval[1] = 0

\* C7: when alphaMin >= alphaMax the loop body is never executed and
\* Evaluate returns 0, also for rays without displacement on some axes.
C7_MissReturnsZero ==
  RayAlphaMin >= RayAlphaMax
    => /\ trav.steps = 0
       /\ rpc = "loop" => ~LoopCondition(trav, RayS, RayD, RayVol)
       /\ rpc = "done" => pixval[1] = 0

\* a tangent ray (alphaMin = alphaMax) without displacement on one axis has
\* returned
C7_Witness ==
  /\ rpc = "done"
  /\ RayAlphaMin = RayAlphaMax
  /\ \E k \in Axes : RayVector(RayS, RayD)[k] = 0
  /\ \E k \in Axes : RayVector(RayS, RayD)[k] # 0
  /\ rayIn.vol = "ramp"
  /\ pixval[1] = 0

\* C8: the value returned lies in the range of the output type: d12 below
\* the minimum is returned as the minimum, above the maximum as the maximum,
\* any other d12 unchanged.
C8_Clamped ==
  rpc = "done"
    => LET lo == OutputTypes[rayIn.outT].min * RayDen
           hi == OutputTypes[rayIn.outT].max * RayDen
       IN  /\ pixval[2] = RayDen
           /\ lo <= pixval[1] /\ pixval[1] <= hi
           /\ trav.d12 < lo => pixval[1] = lo
           /\ trav.d12 > hi => pixval[1] = hi
           /\ (lo <= trav.d12 /\ trav.d12 <= hi) => pixval[1] = trav.d12

\* d12 exceeded the maximum of the narrow type and the maximum was returned
C8_Witness ==
  /\ rpc = "done"
  /\ trav.d12 > OutputTypes[rayIn.outT].max * RayDen
  /\ pixval[1] = OutputTypes[rayIn.outT].max * RayDen

\* The part of the ray between the parameters a0 and a1 (times Den) lies in
\* voxel idx, faces included: on an axis with displacement the voxel's
\* interval covers [a0, a1], on an axis without the ray's coordinate lies
\* between the voxel's two planes.
SegmentInVoxel(idx, a0, a1, S, rv, vol) ==
  \A k \in Axes :
    IF rv[k] # 0
      THEN /\ VoxelEnter(k, idx, S, rv, vol) <= a0
           /\ a1 <= VoxelLeave(k, idx, S, rv, vol)
      ELSE /\ idx[k] * vol.spacing[k] <= S[k]
           /\ S[k] <= (idx[k] + 1) * vol.spacing[k]

\* C11: in every iteration that adds to d12, the intensity that is weighted
\* by (alphaCmin - alphaCminPrev) is the one of the voxel the ray traversed
\* between alphaCminPrev and alphaCmin (the voxel just left), not the one of
\* the voxel the iteration moves into.
C11_WeightsVoxelJustLeft ==
  [][ trav'.d12 # trav.d12
      => SegmentInVoxel(trav'.reads[Len(trav'.reads)], trav'.alphaCminPrev,
                        trav'.alphaCmin, RayS, RayVector(RayS, RayD), RayVol) ]_vars

\* C12: GetPixel is called only with indices inside the grid, and an
\* iteration whose resulting index is outside leaves d12 unchanged and does
\* not end the traversal.
C12_ReadsInGrid ==
  [][ trav' # trav
      => /\ \A i \in 1 .. Len(trav'.reads) : trav'.reads[i] \in GridIndices(RayVol)
         /\ trav'.cIndex \notin GridIndices(RayVol)
              => /\ trav'.reads = trav.reads
                 /\ trav'.d12 = trav.d12
                 /\ rpc' = "loop" ]_vars

\* the traversal went on after an iteration whose index was outside the
\* grid: of two iterations the first read nothing, the second read a voxel
C12_Witness ==
  /\ rpc = "loop"
  /\ trav.steps = 2
  /\ Len(trav.reads) = 1
  /\ trav.reads[1] = trav.cIndex


\* C13: for every ray and every finite volume the loop terminates.  An
\* iteration that leaves alphaX, alphaY, alphaZ and alphaCmin as they were
\* while alphaCmin < alphaMax holds is repeated without end, so in a loop
\* that terminates every iteration changes one of them or ends the loop.
C13_Terminates ==
  [][ trav' # trav
      => \/ trav'.alpha # trav.alpha
         \/ trav'.alphaCmin # trav.alphaCmin
         \/ ~LoopCondition(trav', RayS, RayD, RayVol) ]_vars

\* the axes on which the ray has a displacement
MovingAxes(rv) == { k \in Axes : rv[k] # 0 }

SetMax(A) == CHOOSE a \in A : \A b \in A : b <= a

SetMin(A) == CHOOSE a \in A : \A b \in A : a <= b

\* C14: for a ray without displacement on some axis, the interval [-2, 2]
\* given to that axis never constrains the intersection: alphaMin is the
\* maximum of the other axes' minima and alphaMax the minimum of the other
\* axes' maxima.
C14_SentinelNeverConstrains ==
  LET rv == RayVector(RayS, RayD)
  IN  (MovingAxes(rv) # {} /\ MovingAxes(rv) # Axes)
        => /\ RayAlphaMin
                = SetMax({ AlphaAxisMin(k, RayS, rv, RayVol) : k \in MovingAxes(rv) })
           /\ RayAlphaMax
                = SetMin({ AlphaAxisMax(k, RayS, rv, RayVol) : k \in MovingAxes(rv) })

\* C15 (checked under Spec): once Initialize() has been called, the source
\* point from which an Evaluate call casts its ray is the source-world
\* point cached in the engine, whatever pose modifications, setter calls and
\* Evaluate calls came in between.
C15_SourceIsCachedSourceWorld ==
  (hist.op = "Evaluate" /\ hist.initMTime > 0)
    => hist.sourceWorld = engine.m_SourceWorld

=============================================================================
